---------------------------- MODULE Spec2Model ----------------------------
(***************************************************************************)
(* Model of src/bot.py: a Telegram bot whose aiogram dispatcher routes     *)
(* every inbound message to the first handler whose filter matches.  The   *)
(* handlers keep two module-level dictionaries (user_context and           *)
(* user_edit_state), create and delete temporary image files, and call     *)
(* three external HTTP adapters (chat, image generation, image edit).      *)
(*                                                                         *)
(* In Spec and SpecChat every event is handled to completion before the    *)
(* next one is taken (one action per handler); in SpecConc the handlers    *)
(* that await the network before they write are interleaved.               *)
(***************************************************************************)
EXTENDS Integers, Sequences, FiniteSets, TLC

(***************************************************************************)
(* Bounds of the model.                                                    *)
(***************************************************************************)
\* number of history entries kept over all users in Spec
MaxHist == 4
\* number of history entries kept over all users in SpecChat
MaxChatHist == 8
\* number of temporary files tempfile.NamedTemporaryFile may create
MaxTmp == 2
\* number of handler calls suspended at an await at one time in SpecConc
MaxTasks == 2
\* number of history entries kept over all users in SpecConc
MaxConcHist == 3
\* number of temporary files created in SpecConc
MaxConcTmp == 1

\* the users of Spec, and those of SpecChat
Users == {"u1"}
ChatUsers == {"u1", "u2"}

(***************************************************************************)
(* Texts.  A text is its core (the text without surrounding whitespace)    *)
(* and the number of whitespace characters on each side of it.  The cores  *)
(* stand for these strings of the source:                                  *)
(*   KW_GEN    "🖼 Сгенерировать изображение"   (bot.py:72, 98, 211)        *)
(*   KW_EDIT   "✏️ Редактировать изображение"   (bot.py:73, 102, 212)       *)
(*   KW_RESET  "🔄 Сбросить контекст"           (bot.py:75, 90, 213)        *)
(*   GEN_PROMPT "Введите запрос для генерации:" (bot.py:100, 108)          *)
(***************************************************************************)
KW_GEN == "kw_generate_image"
KW_EDIT == "kw_edit_image"
KW_RESET == "kw_reset_context"
GEN_PROMPT == "enter_generation_request"

NoText == [core |-> "", pad |-> 0]
Text(core, pad) == [core |-> core, pad |-> pad]

\* str.strip(): the text without its leading and trailing whitespace
strip(t) == [t EXCEPT !.pad = 0]

(***************************************************************************)
(* Inbound messages (aiogram Message).  text is NoText when message.text   *)
(* is None; reply_to is the text of the message replied to ("" when the    *)
(* message is no reply); mime is the document's mime type.                 *)
(***************************************************************************)
Msg(u, ct, t, r, mime) ==
    [from_user |-> u, content_type |-> ct, text |-> t, reply_to |-> r, mime |-> mime]

NoMsg == Msg("", "none", NoText, "", "")

TextMsgs ==
    { Msg(u, "text", t, "", "") :
        u \in Users,
        t \in { Text("/start", 0), Text(KW_GEN, 0), Text(KW_EDIT, 0),
                Text(KW_RESET, 0), Text("hello", 0) } }
    \cup
    { Msg(u, "text", t, GEN_PROMPT, "") :
        u \in Users,
        t \in { Text("fox", 1), Text("long", 1), Text(KW_RESET, 0) } }
    \cup
    { Msg(u, "text", Text("hello", 0), "other", "") : u \in Users }

UploadMsgs ==
    { Msg(u, "photo", NoText, "", "") : u \in Users }
    \cup
    { Msg(u, "document", NoText, "", mime) :
        u \in Users, mime \in {"image/png", "application/pdf"} }

OtherMsgs ==
    { Msg(u, ct, NoText, "", "") : u \in Users, ct \in {"sticker", "voice"} }

Msgs == TextMsgs \cup UploadMsgs \cup OtherMsgs

\* the messages of SpecConc: two users who chat, reset and edit an image
ConcMsgs ==
    { Msg(u, "text", t, "", "") :
        u \in ChatUsers,
        t \in { Text("hello", 0), Text(KW_RESET, 0), Text(KW_EDIT, 0) } }
    \cup
    { Msg(u, "photo", NoText, "", "") : u \in ChatUsers }

\* the messages of SpecChat: chat turns and resets of two users
ChatMsgs ==
    { Msg(u, "text", t, "", "") :
        u \in ChatUsers, t \in { Text("hello", 0), Text(KW_RESET, 0) } }

(***************************************************************************)
(* Webhook requests (aiohttp web.Request).  body.kind tells whether the    *)
(* body is no JSON, JSON that is no Update, or an Update; an Update        *)
(* carries a message (NoMsg when it has none) and a callback query ("none",*)
(* "data" with data, "nodata" without).                                    *)
(***************************************************************************)
Req(method, ct, kind, m, cb) ==
    [method |-> method, content_type |-> ct,
     body |-> [kind |-> kind, message |-> m, callback |-> cb]]

NoReq == Req("", "", "", NoMsg, "none")

\* the request Telegram makes for message m
Update(m) == Req("POST", "application/json", "update", m, "none")

Hello(u) == Msg(u, "text", Text("hello", 0), "", "")

\* requests that are no well-formed update with a message
OddRequests ==
    { Req("GET", "application/json", "update", Hello(u), "none") : u \in Users }
    \cup { Req("POST", "text/plain", "update", Hello(u), "none") : u \in Users }
    \cup { Req("POST", "application/json", kind, NoMsg, "none") :
              kind \in {"not_json", "not_update"} }
    \cup { Req("POST", "application/json", "update", NoMsg, cb) :
              cb \in {"data", "nodata"} }

Requests == { Update(m) : m \in Msgs } \cup OddRequests

ChatRequests == { Update(m) : m \in ChatMsgs }

Response(status, text) == [status |-> status, text |-> text]
NoResponse == Response(0, "")

\* outcomes of one requests.post call
ApiOutcomes == {"ok", "status", "raise"}

(***************************************************************************)
(* State.                                                                  *)
(***************************************************************************)
VARIABLES
    user_context,     \* dict: user id -> list of {role, content}
    user_edit_state,  \* dict: user id -> dict, {} or {"image_path": path}
    files,            \* the temporary files that exist (paths 1..MaxTmp)
    tmp_names,        \* number of temporary file names handed out so far
    last,             \* what handling the last event did (observation)
    request,          \* the webhook request handled last
    response,         \* the response webhook_handler gave to it
    tasks             \* the handler calls suspended at an await (SpecConc)

vars == <<user_context, user_edit_state, files, tmp_names, last, request,
          response, tasks>>

\* a pop that empties the dict (dict.clear())
PopAll(d, k) == [x \in {} |-> 0]

\* a dict without the key k (dict.pop(k, None))
Pop(d, k) == [x \in (DOMAIN d) \ {k} |-> d[x]]
\* a dict with d[k] = v
Put(d, k, v) == [x \in (DOMAIN d) \cup {k} |-> IF x = k THEN v ELSE d[x]]

EmptyDict == [x \in {} |-> 0]
NoPath == 0

Entry(role, content) == [role |-> role, content |-> content]

RECURSIVE SumLen(_, _)
SumLen(d, S) ==
    IF S = {} THEN 0
    ELSE LET k == CHOOSE x \in S : TRUE
         IN Len(d[k]) + SumLen(d, S \ {k})

TotalHist == SumLen(user_context, DOMAIN user_context)

\* the histories have room for one more chat turn
Room(max) == TotalHist + 2 <= max

Observation(m, hs, chat, gen, edit, replies, raised) ==
    [msg |-> m, handlers |-> hs, chat |-> chat, gen |-> gen, edit |-> edit,
     replies |-> replies, raised |-> raised]

Init ==
    /\ user_context = EmptyDict
    /\ user_edit_state = EmptyDict
    /\ files = {}
    /\ tmp_names = 0
    /\ last = Observation(NoMsg, <<>>, <<>>, <<>>, <<>>, <<>>, FALSE)
    /\ request = NoReq
    /\ response = NoResponse
    /\ tasks = {}


(***************************************************************************)
(* Validation and routing.                                                 *)
(***************************************************************************)
\* validate_message: a message needs text or a photo/document/sticker/
\* animation, and a sender
validate_message(m) ==
    /\ ~(m.text = NoText /\ m.content_type \notin {"photo", "document", "sticker", "animation"})
    /\ m.from_user # ""

\* F.text: the message carries a (non-empty) text
HasText(m) == m.text # NoText

\* a comparison against literals that carry a stray space on each side
TextIsPadded(m, core) == m.text = Text(core, 1)

\* F.text == "<literal>": exact comparison, surrounding whitespace included
TextIs(m, core) == m.text = Text(core, 0)

\* the list the chat handler's filter excludes
MENU_KEYWORDS == {KW_GEN, KW_EDIT, KW_RESET}

\* the chat handler registered before the image handlers
HandlersChatEarly ==
    << "cmd_start", "reset_context", "ask_gen_prompt", "ask_edit_photo",
       "handle_ai_chat", "generate_image", "handle_image_upload",
       "process_image_edit" >>

\* the edit handler registered before the generation handler
HandlersEditFirst ==
    << "cmd_start", "reset_context", "ask_gen_prompt", "ask_edit_photo",
       "process_image_edit", "generate_image", "handle_image_upload",
       "handle_ai_chat" >>

\* the handlers in the order of their registration with dp.message
Handlers ==
    << "cmd_start", "reset_context", "ask_gen_prompt", "ask_edit_photo",
       "generate_image", "handle_image_upload", "process_image_edit",
       "handle_ai_chat" >>

\* the filters, with an edit handler that wants a stored image
FilterStoredImage(h, m) ==
    CASE h = "cmd_start" -> HasText(m) /\ m.text.core = "/start"
      [] h = "reset_context" -> TextIs(m, KW_RESET)
      [] h = "ask_gen_prompt" -> TextIs(m, KW_GEN)
      [] h = "ask_edit_photo" -> TextIs(m, KW_EDIT)
      [] h = "generate_image" -> HasText(m) /\ m.reply_to = GEN_PROMPT
      [] h = "handle_image_upload" -> m.content_type \in {"photo", "document"}
      [] h = "process_image_edit" ->
            /\ HasText(m)
            /\ m.from_user \in DOMAIN user_edit_state
            /\ "image_path" \in DOMAIN user_edit_state[m.from_user]
      [] h = "handle_ai_chat" ->
            HasText(m) /\ ~(\E k \in MENU_KEYWORDS : TextIs(m, k))
      [] OTHER -> FALSE

\* the filter each handler is registered with
Filter(h, m) ==
    CASE h = "cmd_start" -> HasText(m) /\ m.text.core = "/start"
      [] h = "reset_context" -> TextIs(m, KW_RESET)
      [] h = "ask_gen_prompt" -> TextIs(m, KW_GEN)
      [] h = "ask_edit_photo" -> TextIs(m, KW_EDIT)
      [] h = "generate_image" -> HasText(m) /\ m.reply_to = GEN_PROMPT
      [] h = "handle_image_upload" -> m.content_type \in {"photo", "document"}
      [] h = "process_image_edit" ->
            HasText(m) /\ m.from_user \in DOMAIN user_edit_state
      [] h = "handle_ai_chat" ->
            HasText(m) /\ ~(\E k \in MENU_KEYWORDS : TextIs(m, k))
      [] OTHER -> FALSE

\* aiogram's router: the handlers are tried in order, the first whose filter
\* passes is called and the others are skipped
Dispatch(m) ==
    LET matching == { i \in 1..Len(Handlers) : Filter(Handlers[i], m) }
    IN IF matching = {} THEN <<>>
       ELSE << Handlers[CHOOSE i \in matching : \A j \in matching : i <= j] >>

\* the update middleware drops an invalid message before the router
Routed(m) == IF validate_message(m) THEN Dispatch(m) ELSE <<>>

\* the replies of a handler whose only Telegram call is one message.answer
Answer(tg, text) == IF tg THEN <<text>> ELSE <<>>

(***************************************************************************)
(* Handlers.  tg tells whether the Telegram API calls of this event        *)
(* succeed (a failed call raises), api is the outcome of requests.post:    *)
(* "ok" a usable 200 response, "status" an error response with a JSON      *)
(* body, "raise" an exception (network error, timeout, malformed body).    *)
(***************************************************************************)
cmd_start(m, tg) ==
    /\ Routed(m) = <<"cmd_start">>
    /\ last' = Observation(m, Routed(m), <<>>, <<>>, <<>>, Answer(tg, "help"), ~tg)
    /\ UNCHANGED <<user_context, user_edit_state, files, tmp_names>>

reset_context(m, tg) ==
    /\ Routed(m) = <<"reset_context">>
    /\ user_context' = Pop(user_context, m.from_user)
    /\ last' = Observation(m, Routed(m), <<>>, <<>>, <<>>,
                           Answer(tg, "context_cleared"), ~tg)
    /\ UNCHANGED <<user_edit_state, files, tmp_names>>

ask_gen_prompt(m, tg) ==
    /\ Routed(m) = <<"ask_gen_prompt">>
    /\ last' = Observation(m, Routed(m), <<>>, <<>>, <<>>, Answer(tg, GEN_PROMPT), ~tg)
    /\ UNCHANGED <<user_context, user_edit_state, files, tmp_names>>

ask_edit_photo(m, tg) ==
    /\ Routed(m) = <<"ask_edit_photo">>
    /\ user_edit_state' = Put(user_edit_state, m.from_user, EmptyDict)
    /\ last' = Observation(m, Routed(m), <<>>, <<>>, <<>>,
                           Answer(tg, "upload_image"), ~tg)
    /\ UNCHANGED <<user_context, files, tmp_names>>

generate_image(m, tg, api) ==
    LET prompt == strip(m.text)
    IN /\ Routed(m) = <<"generate_image">>
       /\ last' =
            IF ~tg
            THEN \* answer_chat_action raises, and so does the answer in except
                 Observation(m, Routed(m), <<>>, <<>>, <<>>, <<>>, TRUE)
            ELSE Observation(m, Routed(m), <<>>, <<prompt>>, <<>>,
                             CASE api = "ok" -> <<"photo">>
                               [] api = "status" -> <<"err_generation">>
                               [] OTHER -> <<"err">>,
                             FALSE)
       /\ UNCHANGED <<user_context, user_edit_state, files, tmp_names>>

\* user_edit_state[user_id].get("image_path")
ImagePath(u) ==
    IF "image_path" \in DOMAIN user_edit_state[u]
    THEN user_edit_state[u]["image_path"]
    ELSE NoPath

\* again: the message.answer of the except block succeeds although the
\* Telegram call before it raised
handle_image_upload(m, tg, again, dl) ==
    LET user_id == m.from_user
    IN /\ Routed(m) = <<"handle_image_upload">>
       /\ IF user_id \notin DOMAIN user_edit_state
          THEN \* no edit flow is pending: return
               /\ last' = Observation(m, Routed(m), <<>>, <<>>, <<>>, <<>>, FALSE)
               /\ UNCHANGED <<user_context, user_edit_state, files, tmp_names>>
          ELSE IF tg /\ m.content_type = "document" /\ m.mime \notin {"image/png"}
          THEN \* not an image/* document: answer and return
               /\ last' = Observation(m, Routed(m), <<>>, <<>>, <<>>,
                                      <<"only_images">>, FALSE)
               /\ UNCHANGED <<user_context, user_edit_state, files, tmp_names>>
          ELSE IF ~tg /\ ~again
          THEN \* that answer or bot.get_file raises, and so does the answer
               \* in except, so the pop after it is not reached
               /\ last' = Observation(m, Routed(m), <<>>, <<>>, <<>>, <<>>, TRUE)
               /\ UNCHANGED <<user_context, user_edit_state, files, tmp_names>>
          ELSE IF ~tg \/ ~dl
          THEN \* that answer, bot.get_file or bot.download_file raises:
               \* except answers, and drops the edit state
               /\ user_edit_state' = Pop(user_edit_state, user_id)
               /\ last' = Observation(m, Routed(m), <<>>, <<>>, <<>>,
                                      <<"err_upload">>, FALSE)
               /\ UNCHANGED <<user_context, files, tmp_names>>
          ELSE \* the download is written to a new temporary file
               /\ tmp_names < MaxTmp
               /\ tmp_names' = tmp_names + 1
               /\ files' = files \cup {tmp_names + 1}
               /\ user_edit_state' =
                    Put(user_edit_state, user_id,
                        Put(user_edit_state[user_id], "image_path", tmp_names + 1))
               /\ last' = Observation(m, Routed(m), <<>>, <<>>, <<>>,
                                      <<"describe_changes">>, FALSE)
               /\ UNCHANGED user_context

\* a finally block that forgets the file
UnlinkSkipped(image_path) == files

\* finally: os.unlink(image_path) when the file exists
Unlink(image_path) == files \ {image_path}

process_image_edit(m, tg, api) ==
    LET user_id == m.from_user
        edit_prompt == m.text
        image_path == ImagePath(user_id)
    IN /\ Routed(m) = <<"process_image_edit">>
       /\ IF image_path = NoPath \/ image_path \notin files
          THEN IF tg
               THEN /\ user_edit_state' = Pop(user_edit_state, user_id)
                    /\ last' = Observation(m, Routed(m), <<>>, <<>>, <<>>,
                                           <<"image_not_found">>, FALSE)
                    /\ UNCHANGED <<user_context, files, tmp_names>>
               ELSE \* the answer raises before the pop
                    /\ last' = Observation(m, Routed(m), <<>>, <<>>, <<>>, <<>>, TRUE)
                    /\ UNCHANGED <<user_context, user_edit_state, files, tmp_names>>
          ELSE \* try ... except ... finally: unlink the file, pop the state
               /\ files' = Unlink(image_path)
               /\ user_edit_state' = Pop(user_edit_state, user_id)
               /\ last' =
                    IF ~tg
                    THEN Observation(m, Routed(m), <<>>, <<>>, <<>>, <<>>, TRUE)
                    ELSE Observation(m, Routed(m), <<>>, <<>>,
                                     << [image |-> image_path, prompt |-> edit_prompt] >>,
                                     CASE api = "ok" -> <<"edited_photo">>
                                       [] api = "status" -> <<"err_edit">>
                                       [] OTHER -> <<"err_api">>,
                                     FALSE)
               /\ UNCHANGED <<user_context, tmp_names>>

\* the reply of the chat adapter
ANSWER == Text("answer", 0)

\* a handler that sends the user's turn without keeping it
TurnNotKept(before, text) == before

\* user_context[user_id].append({"role": "user", ...}) on the list found
TurnAppended(before, text) == Append(before, Entry("user", text))

\* a failed call that takes the user's turn back
CompletedOrRolledBack(sent, api) ==
    IF api = "ok" THEN Append(sent, Entry("assistant", ANSWER))
    ELSE SubSeq(sent, 1, Len(sent) - 1)

\* the history after the call: the answer is appended when the response has
\* one, nothing is changed in the except block
Completed(sent, api) ==
    IF api = "ok" THEN Append(sent, Entry("assistant", ANSWER)) ELSE sent

handle_ai_chat(m, tg, api) ==
    LET user_id == m.from_user
        before == IF user_id \in DOMAIN user_context THEN user_context[user_id] ELSE <<>>
        sent == TurnAppended(before, m.text)
        after == Completed(sent, api)
    IN /\ Routed(m) = <<"handle_ai_chat">>
       /\ user_context' = Put(user_context, user_id, after)
       /\ last' = Observation(m, Routed(m), <<sent>>, <<>>, <<>>,
                              Answer(tg, IF api = "ok" THEN "answer" ELSE "err"), ~tg)
       /\ UNCHANGED <<user_edit_state, files, tmp_names>>

(***************************************************************************)
(* webhook_handler: the checks a request passes before dp.feed_update, and *)
(* the response.                                                           *)
(***************************************************************************)
\* the checks without the content type check
RejectionAnyContentType(req) ==
    IF req.method # "POST" THEN Response(405, "Method Not Allowed")
    ELSE IF req.body.kind = "not_json" THEN Response(400, "Invalid JSON")
    ELSE IF req.body.kind # "update" THEN Response(400, "Invalid update format")
    ELSE IF req.body.message # NoMsg /\ ~validate_message(req.body.message)
         THEN Response(400, "Invalid message")
    ELSE IF req.body.callback = "nodata" THEN Response(400, "Invalid callback")
    ELSE NoResponse

\* the response that rejects req, NoResponse when req passes every check
Rejection(req) ==
    IF req.method # "POST" THEN Response(405, "Method Not Allowed")
    ELSE IF req.content_type # "application/json"
         THEN Response(415, "Unsupported Media Type")
    ELSE IF req.body.kind = "not_json" THEN Response(400, "Invalid JSON")
    ELSE IF req.body.kind # "update" THEN Response(400, "Invalid update format")
    ELSE IF req.body.message # NoMsg /\ ~validate_message(req.body.message)
         THEN Response(400, "Invalid message")
    ELSE IF req.body.callback = "nodata" THEN Response(400, "Invalid callback")
    ELSE NoResponse

\* req passes the checks: its update is fed to the dispatcher
Received(req) ==
    /\ Rejection(req) = NoResponse
    /\ request' = req
    /\ UNCHANGED tasks

\* the response after dp.feed_update: "OK", or 500 when the handler raised
Responded ==
    response' = IF last'.raised THEN Response(500, "Internal Server Error")
                ELSE Response(200, "OK")

\* a request that fails a check is answered at once
webhook_reject(req) ==
    /\ Rejection(req) # NoResponse
    /\ request' = req
    /\ response' = Rejection(req)
    /\ UNCHANGED tasks
    /\ last' = Observation(NoMsg, <<>>, <<>>, <<>>, <<>>, <<>>, FALSE)
    /\ UNCHANGED <<user_context, user_edit_state, files, tmp_names>>

\* an update no handler's filter accepts (a sticker, a callback query)
unhandled(m) ==
    /\ Routed(m) = <<>>
    /\ last' = Observation(m, <<>>, <<>>, <<>>, <<>>, <<>>, FALSE)
    /\ UNCHANGED <<user_context, user_edit_state, files, tmp_names>>

\* down: the Telegram API is unreachable while the event is handled
Next ==
    \/ \E req \in Requests : webhook_reject(req)
    \/ \E req \in Requests, down \in BOOLEAN :
            Received(req) /\ cmd_start(req.body.message, ~down) /\ Responded
    \/ \E req \in Requests, down \in BOOLEAN :
            Received(req) /\ reset_context(req.body.message, ~down) /\ Responded
    \/ \E req \in Requests, down \in BOOLEAN :
            Received(req) /\ ask_gen_prompt(req.body.message, ~down) /\ Responded
    \/ \E req \in Requests, down \in BOOLEAN :
            Received(req) /\ ask_edit_photo(req.body.message, ~down) /\ Responded
    \/ \E req \in Requests, down \in BOOLEAN, api \in ApiOutcomes :
            Received(req) /\ generate_image(req.body.message, ~down, api) /\ Responded
    \/ \E req \in Requests, down \in BOOLEAN, again \in BOOLEAN, dl \in BOOLEAN :
            /\ Received(req)
            /\ handle_image_upload(req.body.message, ~down, again, dl)
            /\ Responded
    \/ \E req \in Requests, down \in BOOLEAN, api \in ApiOutcomes :
            Received(req) /\ process_image_edit(req.body.message, ~down, api) /\ Responded
    \/ \E req \in Requests, down \in BOOLEAN, api \in ApiOutcomes :
            /\ Received(req)
            /\ Room(MaxHist)
            /\ handle_ai_chat(req.body.message, ~down, api)
            /\ Responded
    \/ \E req \in Requests : Received(req) /\ unhandled(req.body.message) /\ Responded

Spec == Init /\ [][Next]_vars

\* the chat handler and the reset handler alone, for two users and longer
\* histories
NextChat ==
    \/ \E req \in ChatRequests, down \in BOOLEAN :
            Received(req) /\ reset_context(req.body.message, ~down) /\ Responded
    \/ \E req \in ChatRequests, down \in BOOLEAN, api \in ApiOutcomes :
            /\ Received(req)
            /\ Room(MaxChatHist)
            /\ handle_ai_chat(req.body.message, ~down, api)
            /\ Responded

SpecChat == Init /\ [][NextChat]_vars

(***************************************************************************)
(* Concurrent handling.  aiohttp runs webhook_handler once per request, as *)
(* tasks of one event loop: a handler runs until it reaches an await that  *)
(* waits for the network (a Telegram API call), and other handlers run     *)
(* while it is suspended there.  requests.post is a blocking call, not an  *)
(* await: nothing else runs during it.  A handler whose writes all precede *)
(* its first await (reset_context, ask_edit_photo, handle_ai_chat) is one  *)
(* step; handle_image_upload and process_image_edit are split at their     *)
(* awaits, their locals kept in a task record.                             *)
(***************************************************************************)
Task(h, m, pc, image_path) ==
    [handler |-> h, msg |-> m, pc |-> pc, image_path |-> image_path]

\* a suspended call is resumed, or finishes
Goto(t, pc) == tasks' = (tasks \ {t}) \cup {[t EXCEPT !.pc = pc]}
Finish(t) == tasks' = tasks \ {t}
\* the upload wrote its temporary file tmp_name and goes on at pc
Stored(t, pc, tmp_name) ==
    tasks' = (tasks \ {t}) \cup {[t EXCEPT !.pc = pc, !.image_path = tmp_name]}

Spawn(t) ==
    /\ t \notin tasks
    /\ Cardinality(tasks) < MaxTasks
    /\ tasks' = tasks \cup {t}

\* what a resumed call did: the request it made, whether it ended by raising
Step(t, edit, raised) ==
    last' = Observation(t.msg, <<t.handler>>, <<>>, <<>>, edit, <<>>, raised)

\* handle_image_upload up to its first await (bot.get_file)
upload_begin(req) ==
    LET m == req.body.message
        user_id == m.from_user
    IN /\ Rejection(req) = NoResponse
       /\ Routed(m) = <<"handle_image_upload">>
       /\ request' = req
       /\ IF user_id \notin DOMAIN user_edit_state
          THEN /\ response' = Response(200, "OK")
               /\ UNCHANGED tasks
          ELSE /\ response' = NoResponse
               /\ Spawn(Task("handle_image_upload", m, "download", NoPath))
       /\ last' = Observation(m, Routed(m), <<>>, <<>>, <<>>, <<>>, FALSE)
       /\ UNCHANGED <<user_context, user_edit_state, files, tmp_names>>

\* bot.get_file and bot.download_file return or raise; the download is
\* written to a new temporary file and its name stored, which raises
\* KeyError when the user's edit state is gone
upload_downloaded(t, dl) ==
    LET user_id == t.msg.from_user
    IN /\ t \in tasks
       /\ t.handler = "handle_image_upload" /\ t.pc = "download"
       /\ IF ~dl
          THEN /\ Goto(t, "except")
               /\ UNCHANGED <<user_edit_state, files, tmp_names>>
          ELSE /\ tmp_names < MaxConcTmp
               /\ tmp_names' = tmp_names + 1
               /\ files' = files \cup {tmp_names + 1}
               /\ IF user_id \in DOMAIN user_edit_state
                  THEN /\ user_edit_state' =
                            Put(user_edit_state, user_id,
                                Put(user_edit_state[user_id], "image_path",
                                    tmp_names + 1))
                       /\ Stored(t, "answer", tmp_names + 1)
                  ELSE /\ Stored(t, "except", tmp_names + 1)
                       /\ UNCHANGED user_edit_state
       /\ Step(t, <<>>, FALSE)
       /\ request' = Update(t.msg)
       /\ response' = NoResponse
       /\ UNCHANGED user_context

\* the answer after the upload was stored
upload_answered(t, tg) ==
    /\ t \in tasks
    /\ t.handler = "handle_image_upload" /\ t.pc = "answer"
    /\ Finish(t)
    /\ Step(t, <<>>, ~tg)
    /\ request' = Update(t.msg)
    /\ Responded
    /\ UNCHANGED <<user_context, user_edit_state, files, tmp_names>>

\* except: the error is answered, then the edit state is dropped
upload_except(t, tg) ==
    /\ t \in tasks
    /\ t.handler = "handle_image_upload" /\ t.pc = "except"
    /\ Finish(t)
    /\ user_edit_state' =
            IF tg THEN Pop(user_edit_state, t.msg.from_user) ELSE user_edit_state
    /\ Step(t, <<>>, ~tg)
    /\ request' = Update(t.msg)
    /\ Responded
    /\ UNCHANGED <<user_context, files, tmp_names>>

\* process_image_edit up to its first await: message.answer when the image
\* is not found, message.answer_chat_action otherwise
edit_begin(req) ==
    LET m == req.body.message
        image_path == ImagePath(m.from_user)
    IN /\ Rejection(req) = NoResponse
       /\ Routed(m) = <<"process_image_edit">>
       /\ request' = req
       /\ response' = NoResponse
       /\ IF image_path = NoPath \/ image_path \notin files
          THEN Spawn(Task("process_image_edit", m, "not_found", image_path))
          ELSE Spawn(Task("process_image_edit", m, "chat_action", image_path))
       /\ last' = Observation(m, Routed(m), <<>>, <<>>, <<>>, <<>>, FALSE)
       /\ UNCHANGED <<user_context, user_edit_state, files, tmp_names>>

\* the "not found" answer returns, then the edit state is dropped
edit_not_found(t, tg) ==
    /\ t \in tasks
    /\ t.handler = "process_image_edit" /\ t.pc = "not_found"
    /\ Finish(t)
    /\ user_edit_state' =
            IF tg THEN Pop(user_edit_state, t.msg.from_user) ELSE user_edit_state
    /\ Step(t, <<>>, ~tg)
    /\ request' = Update(t.msg)
    /\ Responded
    /\ UNCHANGED <<user_context, files, tmp_names>>

\* answer_chat_action returns: the file is opened and posted (open raises
\* when the file is gone), and the handler awaits the answer it sends
edit_posted(t, tg) ==
    /\ t \in tasks
    /\ t.handler = "process_image_edit" /\ t.pc = "chat_action"
    /\ Goto(t, "finally")
    /\ Step(t,
            IF tg /\ t.image_path \in files
            THEN << [image |-> t.image_path, prompt |-> t.msg.text] >>
            ELSE <<>>,
            FALSE)
    /\ request' = Update(t.msg)
    /\ response' = NoResponse
    /\ UNCHANGED <<user_context, user_edit_state, files, tmp_names>>

\* the answer returns or raises; finally: unlink the file, drop the state
edit_finally(t, tg) ==
    /\ t \in tasks
    /\ t.handler = "process_image_edit" /\ t.pc = "finally"
    /\ Finish(t)
    /\ files' = Unlink(t.image_path)
    /\ user_edit_state' = Pop(user_edit_state, t.msg.from_user)
    /\ Step(t, <<>>, ~tg)
    /\ request' = Update(t.msg)
    /\ Responded
    /\ UNCHANGED <<user_context, tmp_names>>

ConcRequests == { Update(m) : m \in ConcMsgs }

\* every handler call in flight belongs to one of these
Suspended ==
    { Task(h, m, pc, path) :
        h \in {"handle_image_upload", "process_image_edit"},
        m \in ConcMsgs,
        pc \in {"download", "answer", "except", "not_found", "chat_action",
                "finally"},
        path \in 0..MaxConcTmp }

\* the Telegram API fails only where that changes what a handler writes
NextConc ==
    \/ \E req \in ConcRequests :
            Received(req) /\ reset_context(req.body.message, TRUE) /\ Responded
    \/ \E req \in ConcRequests :
            Received(req) /\ ask_edit_photo(req.body.message, TRUE) /\ Responded
    \/ \E req \in ConcRequests, api \in ApiOutcomes :
            /\ Received(req)
            /\ Room(MaxConcHist)
            /\ handle_ai_chat(req.body.message, TRUE, api)
            /\ Responded
    \/ \E req \in ConcRequests : upload_begin(req)
    \/ \E t \in Suspended, fail \in BOOLEAN : upload_downloaded(t, ~fail)
    \/ \E t \in Suspended : upload_answered(t, TRUE)
    \/ \E t \in Suspended, down \in BOOLEAN : upload_except(t, ~down)
    \/ \E req \in ConcRequests : edit_begin(req)
    \/ \E t \in Suspended, down \in BOOLEAN : edit_not_found(t, ~down)
    \/ \E t \in Suspended : edit_posted(t, TRUE)
    \/ \E t \in Suspended : edit_finally(t, TRUE)

SpecConc == Init /\ [][NextConc]_vars

(***************************************************************************)
(* Properties.  last describes the event handled last; in an action        *)
(* formula last' describes the event the step handles, and the unprimed    *)
(* variables are the state that event found.                               *)
(***************************************************************************)
Sender == last.msg.from_user

MenuTexts == { Text(k, 0) : k \in MENU_KEYWORDS }

\* a text that is no command, no menu keyword and no reply to the
\* generation prompt
OrdinaryText(m) ==
    /\ HasText(m)
    /\ m.text.core # "/start"
    /\ m.text \notin MenuTexts
    /\ m.reply_to # GEN_PROMPT

\* the history a chat turn with message m sends, given the state it finds
FreshHistory(m) == << Entry("user", m.text) >>

\* C1: the history the chat handler sends to the chat adapter has at most 6
\* entries, however many turns preceded it.
C1_SentHistoryAtMostSix ==
    \A i \in 1..Len(last.chat) : Len(last.chat[i]) <= 6

\* C2: every temporary image file that exists is the pending image path of
\* some user's edit state (no orphaned temp file).
C2_NoOrphanTempFile ==
    \A f \in files : \E u \in DOMAIN user_edit_state : ImagePath(u) = f

\* C3: when a text is handled as an edit instruction for a user with a stored
\* image, then after the handler the temp file is deleted and the user's edit
\* state is removed, whatever the outcome of the adapter call and of the
\* Telegram calls.
C3_EditReleasesImage ==
    [][ LET m == last'.msg
            u == m.from_user
        IN (/\ last'.handlers = <<"process_image_edit">>
            /\ u \in DOMAIN user_edit_state
            /\ ImagePath(u) \in files)
           => (/\ ImagePath(u) \notin files'
               /\ u \notin DOMAIN user_edit_state') ]_vars

\* C3 witness: an edit instruction found a stored image, the adapter call
\* raised, and the handler has finished.
C3_Witness ==
    /\ last.handlers = <<"process_image_edit">>
    /\ Len(last.edit) = 1
    /\ last.replies = <<"err_api">>
    /\ files = {}

\* C4: the event after a handled (and confirmed) reset keyword of user u,
\* when it is an ordinary text m of u, invokes the chat adapter with exactly
\* the one-entry history [user: m].
C4_FreshHistoryAfterReset ==
    [][ LET m == last'.msg
        IN (/\ last.handlers = <<"reset_context">>
            /\ ~last.raised
            /\ m.from_user = Sender
            /\ OrdinaryText(m))
           => last'.chat = << FreshHistory(m) >> ]_vars

\* C5: after a handled reset keyword of user u no session state of u is
\* left: no history and no edit state.
C5_ResetRemovesSession ==
    last.handlers = <<"reset_context">>
        => (/\ Sender \notin DOMAIN user_context
            /\ Sender \notin DOMAIN user_edit_state)

\* C6: after the 'generate image' keyword of user u, u's next text is consumed
\* as the image prompt (the image adapter is invoked with it), and the text
\* after a consumed prompt is an ordinary chat turn that does not invoke the
\* image adapter.  (Texts that are commands or menu keywords, and events
\* whose Telegram calls fail, are left out.)
C6_PromptIsOneShot ==
    [][ LET m == last'.msg
            plain == /\ HasText(m)
                     /\ m.text.core # "/start"
                     /\ m.text \notin MenuTexts
                     /\ m.from_user = Sender
                     /\ ~last.raised
                     /\ ~last'.raised
        IN /\ (last.handlers = <<"ask_gen_prompt">> /\ plain)
                => last'.gen = << strip(m.text) >>
           /\ (last.handlers = <<"generate_image">> /\ plain)
                => (last'.gen = <<>> /\ last'.handlers = <<"handle_ai_chat">>) ]_vars

\* the number of characters of a text; the core "long" stands for a
\* description of 501 characters
CoreLen(core) ==
    CASE core = KW_GEN -> 28
      [] core = KW_EDIT -> 28
      [] core = KW_RESET -> 19
      [] core = "/start" -> 6
      [] core = "hello" -> 5
      [] core = "fox" -> 3
      [] core = "long" -> 501
      [] OTHER -> 0

TextLen(t) == CoreLen(t.core) + 2 * t.pad

\* C7: an image description of more than 500 characters causes no request to
\* the image adapter; the user gets a rejection message instead.
C7_LongPromptRejected ==
    (last.handlers = <<"generate_image">> /\ TextLen(strip(last.msg.text)) > 500)
        => (last.gen = <<>> /\ Len(last.replies) = 1 /\ ~last.raised)

\* the handler the claimed order of rules selects for m in the current state
\* (<<>> when no rule applies)
RuleFor(m) ==
    IF HasText(m) /\ m.text.core = "/start" THEN <<"cmd_start">>
    ELSE IF m.text = Text(KW_RESET, 0) THEN <<"reset_context">>
    ELSE IF m.text = Text(KW_GEN, 0) THEN <<"ask_gen_prompt">>
    ELSE IF m.text = Text(KW_EDIT, 0) THEN <<"ask_edit_photo">>
    ELSE IF HasText(m) /\ m.reply_to = GEN_PROMPT THEN <<"generate_image">>
    ELSE IF m.content_type \in {"photo", "document"} THEN <<"handle_image_upload">>
    ELSE IF HasText(m) /\ m.from_user \in DOMAIN user_edit_state
         THEN <<"process_image_edit">>
    ELSE IF HasText(m) THEN <<"handle_ai_chat">>
    ELSE <<>>

\* a reply to the generation prompt by a user with a pending edit flow
\* invokes the image-generation adapter only and leaves the edit state and
\* the stored image alone
ReplyLeavesEditFlow ==
    (last'.handlers = <<"generate_image">>
        /\ last'.msg.from_user \in DOMAIN user_edit_state)
    => (/\ last'.edit = <<>>
        /\ last'.chat = <<>>
        /\ ~last'.raised => last'.gen = << strip(last'.msg.text) >>
        /\ UNCHANGED <<user_edit_state, files>>)

\* C8 as claimed: every inbound message event runs exactly one handler, the
\* first whose rule matches in the order start/help, reset, generate, edit,
\* reply to the generation prompt, upload, edit instruction, chat; and a
\* reply to the generation prompt leaves a pending edit flow alone.
C8_ExactlyOneHandler ==
    [][ /\ Len(last'.handlers) = 1
        /\ last'.handlers = RuleFor(last'.msg)
        /\ ReplyLeavesEditFlow ]_vars

\* C8 as amended: every inbound message event runs at most one handler, the
\* first whose rule matches in that order; a text message and a photo or
\* document upload run exactly one, any other message runs none; and a reply
\* to the generation prompt leaves a pending edit flow alone.
C8_FirstMatchingHandler ==
    [][ LET m == last'.msg
        IN /\ Len(last'.handlers) <= 1
           /\ last'.handlers = RuleFor(m)
           /\ (HasText(m) \/ m.content_type \in {"photo", "document"})
                <=> Len(last'.handlers) = 1
           /\ ReplyLeavesEditFlow ]_vars

\* C8 witness: a reply to the generation prompt was routed to the generation
\* handler while its sender has a stored image pending.
C8_Witness ==
    /\ last.handlers = <<"generate_image">>
    /\ Len(last.gen) = 1
    /\ Sender \in DOMAIN user_edit_state
    /\ ImagePath(Sender) \in files

\* the history of user u, empty when u has none
History(u) == IF u \in DOMAIN user_context THEN user_context[u] ELSE <<>>

\* message m is handled as a chat turn: appended to the sender's history,
\* which is sent to the chat adapter
ChatTurn(m) ==
    /\ last'.handlers = <<"handle_ai_chat">>
    /\ last'.chat = << Append(History(m.from_user), Entry("user", m.text)) >>
    /\ m.from_user \in DOMAIN user_context'
    /\ SubSeq(user_context'[m.from_user], 1, Len(History(m.from_user)) + 1)
         = Append(History(m.from_user), Entry("user", m.text))
    /\ last'.edit = <<>>

NoKeywordTurn(h) ==
    \A i \in 1..Len(h) : h[i].role = "user" => h[i].content \notin MenuTexts

\* C10: no user-role entry of any history is one of the three menu keywords,
\* and no history sent to the chat adapter has such an entry.
C10_NoKeywordInHistory ==
    /\ \A u \in DOMAIN user_context : NoKeywordTurn(user_context[u])
    /\ \A i \in 1..Len(last.chat) : NoKeywordTurn(last.chat[i])

\* C10 witness: a menu keyword arrived from a user who has a history and a
\* pending edit flow with a stored image.
C10_Witness ==
    /\ last.msg.text \in MenuTexts
    /\ Sender \in DOMAIN user_context
    /\ Len(user_context[Sender]) >= 2
    /\ Sender \in DOMAIN user_edit_state
    /\ ImagePath(Sender) \in files

\* the number of requests the last event made to the three adapters
Requests_made == Len(last.chat) + Len(last.gen) + Len(last.edit)

\* the adapter call of the last event failed: the chat handler appended no
\* assistant turn, the image handlers did not deliver a picture
FailedCall ==
    \/ last.chat # <<>> /\ user_context[Sender] = last.chat[1]
    \/ last.gen # <<>> /\ last.replies # <<"photo">>
    \/ last.edit # <<>> /\ last.replies # <<"edited_photo">>

ErrorReplies == {"err", "err_generation", "err_edit", "err_api"}

\* C11: a failed adapter call (chat, image generation, image edit) is the
\* only upstream request of its turn, the user is sent exactly one error
\* message, and the handler returns normally.
C11_FailedCallOneMessage ==
    FailedCall =>
        /\ Requests_made = 1
        /\ Len(last.replies) = 1
        /\ last.replies[1] \in ErrorReplies
        /\ ~last.raised


\* req is a POST of content type application/json whose body is JSON that
\* validates as an Update with a valid message (if any) and a callback query
\* with data (if any)
WellFormed(req) ==
    /\ req.method = "POST"
    /\ req.content_type = "application/json"
    /\ req.body.kind = "update"
    /\ req.body.message # NoMsg => validate_message(req.body.message)
    /\ req.body.callback # "nodata"

\* C12: only a well-formed webhook request reaches the router; every other
\* request is answered 4xx and leaves the session state unchanged; a
\* well-formed request processed without exception is answered 200 "OK".
C12_WebhookBoundary ==
    [][ /\ (last'.handlers # <<>> \/ response'.status \in {200, 500})
            => WellFormed(request')
        /\ ~WellFormed(request')
            => /\ response'.status \in 400..499
               /\ UNCHANGED <<user_context, user_edit_state, files, tmp_names>>
        /\ (WellFormed(request') /\ ~last'.raised)
            => response' = Response(200, "OK") ]_vars

\* a request of the wrong content type was rejected, with sessions in the
\* store
C12_Witness ==
    /\ request.content_type = "text/plain"
    /\ response = Response(415, "Unsupported Media Type")
    /\ user_edit_state # EmptyDict
    /\ user_context # EmptyDict

\* what the program keeps for user u: the history, the edit state, and
\* whether the file of the pending image path exists
Session(u) ==
    [history |-> IF u \in DOMAIN user_context THEN <<user_context[u]>> ELSE <<>>,
     edit |-> IF u \in DOMAIN user_edit_state THEN <<user_edit_state[u]>> ELSE <<>>,
     file |-> u \in DOMAIN user_edit_state /\ ImagePath(u) \in files]

\* C13: a step of a handler that handles an event of user A, whatever calls
\* of other users are suspended, leaves the history, the edit state and the
\* temporary file of every other user B unchanged.
C13_OtherUsersUntouched ==
    [][ \A B \in ChatUsers :
            B # last'.msg.from_user => Session(B)' = Session(B) ]_vars

\* u1's edit handler has dropped u1's edit state while u2 has a history, a
\* stored image and a suspended call
C13_Witness ==
    /\ last.msg.from_user = "u1"
    /\ last.handlers = <<"process_image_edit">>
    /\ "u1" \notin DOMAIN user_edit_state
    /\ Session("u2").history # <<>>
    /\ Session("u2").file
    /\ \E t \in tasks : t.msg.from_user = "u2"


\* C14: the chat handler sends the history with the user's turn appended; on
\* success the history becomes what was sent plus one assistant turn, on
\* failure it stays what was sent, so the failed turn is part of what the
\* user's next chat message sends.
C14_TurnsAroundChatCall ==
    [][ last'.handlers = <<"handle_ai_chat">> =>
          LET u == last'.msg.from_user
              sent == Append(History(u), Entry("user", last'.msg.text))
              answered == Append(sent, Entry("assistant", ANSWER))
          IN /\ last'.chat = <<sent>>
             /\ u \in DOMAIN user_context'
             /\ user_context'[u] \in {sent, answered}
             /\ last'.replies = <<"answer">> => user_context'[u] = answered
             /\ last'.replies = <<"err">> => user_context'[u] = sent ]_vars

\* a chat call succeeded on a history whose previous turn had failed: the
\* failed turn was sent again, and the answer follows the new turn
C14_Witness ==
    /\ last.handlers = <<"handle_ai_chat">>
    /\ last.replies = <<"answer">>
    /\ Len(last.chat[1]) >= 2
    /\ last.chat[1][Len(last.chat[1]) - 1].role = "user"
    /\ user_context[Sender] = Append(last.chat[1], Entry("assistant", ANSWER))


NonImageDocument(m) == m.content_type = "document" /\ m.mime # "image/png"

NoUpstreamCall == last'.chat = <<>> /\ last'.gen = <<>> /\ last'.edit = <<>>

\* C15: a document that is no image, sent by a user with a pending edit
\* flow, is answered with the "only images" message, creates no temporary
\* file, calls no adapter and leaves the edit state as it was; an upload by
\* a user without a pending edit flow changes nothing and calls nothing.
C15_UploadRejected ==
    [][ last'.handlers = <<"handle_image_upload">> =>
          LET m == last'.msg
          IN /\ (NonImageDocument(m) /\ m.from_user \in DOMAIN user_edit_state)
                  => /\ NoUpstreamCall
                     /\ UNCHANGED <<files, tmp_names, user_context>>
                     /\ UNCHANGED user_edit_state
                     /\ ~last'.raised => last'.replies = <<"only_images">>
             /\ m.from_user \notin DOMAIN user_edit_state
                  => /\ NoUpstreamCall
                     /\ last'.replies = <<>>
                     /\ UNCHANGED <<files, tmp_names, user_context,
                                    user_edit_state>> ]_vars


\* the suspended upload t finishes in this step
UploadFinishes(t) ==
    /\ t \in tasks
    /\ t.handler = "handle_image_upload"
    /\ tasks' = tasks \ {t}

\* C16: when an upload handler finishes, the temporary file it created has
\* been recorded by it as the user's pending image path or does not exist
\* any more, also when another event of the same user removed the edit
\* state while the upload was suspended at its download.
C16_UploadLeavesNoOrphan ==
    [][ \A t \in tasks :
            (UploadFinishes(t) /\ t.image_path # NoPath)
                => t.pc = "answer" \/ t.image_path \notin files' ]_vars


\* history h starts with a user turn, and each assistant turn in it comes
\* directly after a user turn
WellFormedHistory(h) ==
    /\ h # <<>> => h[1].role = "user"
    /\ \A i \in 1..Len(h) :
            h[i].role = "assistant" => (i > 1 /\ h[i - 1].role = "user")

\* C17: every user's history starts with a user turn and has a user turn
\* directly before each assistant turn, after failed chat calls and while
\* other handlers of the same user are suspended.
C17_HistoryAlternates ==
    \A u \in DOMAIN user_context : WellFormedHistory(user_context[u])

\* after a failed call and a successful one, with a handler of the same user
\* suspended
C17_Witness ==
    /\ "u1" \in DOMAIN user_context
    /\ Len(user_context["u1"]) = 3
    /\ user_context["u1"][3].role = "assistant"
    /\ \E t \in tasks : t.msg.from_user = "u1"


\* C18: an event whose rule is neither the chat handler nor the reset
\* handler (start/help, the generate and edit keywords, a reply to the
\* generation prompt, an upload, an edit instruction) leaves every user's
\* history unchanged and sends nothing to the chat adapter.
C18_OnlyChatAndResetWriteHistory ==
    [][ RuleFor(last'.msg) \notin {<<"handle_ai_chat">>, <<"reset_context">>}
            => /\ UNCHANGED user_context
               /\ last'.chat = <<>> ]_vars

\* an edit instruction was sent to the edit adapter by a user who has a
\* history
C18_Witness ==
    /\ last.handlers = <<"process_image_edit">>
    /\ last.edit # <<>>
    /\ History(Sender) # <<>>


\* C19: when the edit handler has handled a text message, on whichever path
\* (stored image missing, adapter success, adapter failure, exception), its
\* sender has no edit state any more, so that the sender's next ordinary
\* text is a chat turn.
C19_EditStateEndsWithFirstText ==
    last.handlers = <<"process_image_edit">>
        => Sender \notin DOMAIN user_edit_state

====
